---------------------------- MODULE Spec2Model ----------------------------
(***************************************************************************)
(* Model of the ingestion pipeline of pydanticAI_crawl4AI.py:              *)
(*   chunk_text                  the text splitter (a pure function)       *)
(*   get_title_and_summary,                                                *)
(*   get_embedding, process_chunk   per-chunk enrichment                   *)
(*   insert_chunk, process_and_store_document   per-page fan-out/fan-in    *)
(*   crawl_parallel / process_url   the semaphore-bounded crawl            *)
(*                                                                         *)
(* Two specifications share the module.  ChunkSpec runs chunk_text's loop  *)
(* on every text and chunk size within the bounds.  Spec runs one          *)
(* crawl_parallel call under asyncio's cooperative scheduling.             *)
(***************************************************************************)
EXTENDS Integers, Sequences, FiniteSets, Bags, TLC

(***************************************************************************)
(* Bounds of the model.                                                    *)
(***************************************************************************)
\* longest text given to chunk_text in ChunkSpec
MaxTextLen == 6
\* largest chunk_size given to chunk_text in ChunkSpec
MaxChunkSize == 5
\* largest max_concurrency given to crawl_parallel in Spec
MaxConcurrency == 2
\* the chunk_size process_and_store_document splits with: the default of
\* chunk_text (5000), scaled to the page texts of the model
PageChunkSize == 4

(***************************************************************************)
(* Characters and strings.  A string is a sequence of one-character        *)
(* strings; offsets are 0-based as in Python.                              *)
(***************************************************************************)
\* "^" stands for the backtick character
Alphabet == {"a", " ", "\n", ".", "^"}

\* str.strip() with no argument strips whitespace
Whitespace == {" ", "\n"}

\* the code fence delimiter: three backticks
Fence == <<"^", "^", "^">>

\* two newlines
ParaBreak == <<"\n", "\n">>

\* a period
Period == <<".">>

Max(a, b) == IF a >= b THEN a ELSE b

Min(a, b) == IF a <= b THEN a ELSE b

\* text[a:b] for 0 <= a, with Python's clipping of b to len(text)
Slice(s, a, b) == SubSeq(s, a + 1, Min(b, Len(s)))

\* s.strip()
Strip(s) ==
    LET keep == {i \in 1..Len(s) : s[i] \notin Whitespace}
    IN  IF keep = {} THEN <<>>
        ELSE LET lo == CHOOSE i \in keep : \A j \in keep : i <= j
                 hi == CHOOSE i \in keep : \A j \in keep : i >= j
             IN  SubSeq(s, lo, hi)

\* s.rfind(pat): highest 0-based offset at which pat occurs in s, else -1
RFind(s, pat) ==
    LET hits == {i \in 0..(Len(s) - Len(pat)) : SubSeq(s, i + 1, i + Len(pat)) = pat}
    IN  IF hits = {} THEN -1
        ELSE CHOOSE i \in hits : \A j \in hits : i >= j

\* pat in s
Contains(s, pat) == RFind(s, pat) # -1

\* pos > chunk_size * 0.3, in integers
PastThreshold(pos, size) == 10 * pos > 3 * size

(***************************************************************************)
(* chunk_text: the pieces of one loop iteration.                           *)
(***************************************************************************)
\* (mutant) the window reaches one character too far
NaiveEndOver(start, size) == start + size + 1

\* end = start + chunk_size
NaiveEnd(start, size) == start + size

\* the branch "if end >= len(text)": what is appended before the break
FinalChunk(text, start) == Strip(Slice(text, start, Len(text)))

\* the break-point search: the value of end after the if/elif/elif
WindowEnd(text, size, start) ==
    LET end       == NaiveEnd(start, size)
        chunk     == Slice(text, start, end)
        codeblock == RFind(chunk, Fence)
    IN  IF codeblock # -1 /\ PastThreshold(codeblock, size)
          THEN start + codeblock
        ELSE IF Contains(chunk, ParaBreak)
          THEN IF PastThreshold(RFind(chunk, ParaBreak), size)
                 THEN start + RFind(chunk, ParaBreak)
                 ELSE end
        ELSE IF Contains(chunk, Period)
          THEN IF PastThreshold(RFind(chunk, Period), size)
                 THEN start + RFind(chunk, Period)
                 ELSE end
        ELSE end

\* chunk = text[start:end].strip(); appended only "if chunk"
Emit(chunks, chunk) == IF chunk # <<>> THEN Append(chunks, chunk) ELSE chunks

\* (mutant) the cursor set to the window end without the floor, the window
\* end overlapping the last character
NextStartOverlap(start, end) == end - 1

\* (mutant) the cursor skips the character at the break point
NextStartSkip(start, end) == Max(start + 1, end + 1)

\* start = max(start + 1, end)
NextStart(start, end) == Max(start + 1, end)

\* chunk_text(text, chunk_size) from a cursor position on, as the loop computes it
RECURSIVE ChunkFrom(_, _, _, _)
ChunkFrom(text, size, start, chunks) ==
    IF ~(start < Len(text)) THEN chunks
    ELSE IF NaiveEnd(start, size) >= Len(text)
      THEN Append(chunks, FinalChunk(text, start))
    ELSE LET end == WindowEnd(text, size, start)
         IN  ChunkFrom(text, size, NextStart(start, end),
                       Emit(chunks, Strip(Slice(text, start, end))))

chunk_text(text, size) == ChunkFrom(text, size, 0, <<>>)



(***************************************************************************)
(* State.                                                                  *)
(***************************************************************************)
VARIABLES
    \* chunk_text's loop (ChunkSpec)
    text,        \* the argument text
    chunk_size,  \* the argument chunk_size
    start,       \* the cursor
    chunks,      \* the list built so far
    lastEnd,     \* the value of end in the last iteration (-1 before the first)
    cpc,         \* "idle": not called; "loop": at the while test; "done": returned
    \* one run of crawl_parallel under asyncio.run (Spec)
    max_concurrency, \* the argument max_concurrency
    crawl,       \* where crawl_parallel is: "idle", "start", "gather", "close"
                 \* (in the finally), "returned", "raised"
    exc,         \* the exception crawl_parallel has in flight or has raised,
                 \* named by the await it came out of; "none" without one
    loopClosed,  \* asyncio.run has cancelled what was left and closed the loop
    sem,         \* the semaphore's value: the free slots
    task,        \* task[u]: where the process_url(u) task is
    result,      \* result[u]: what crawler.arun gave process_url(u)
    ctask,       \* ctask[u][i]: the process_chunk task of chunk i of u's page
    attempts,    \* attempts[u]: the insert_chunk calls made for u, in order
    store,       \* the rows of the site_pages table, a bag
    runs,        \* how many times the script has been started
    \* one call of the agent's tool retrieve_relevant_documentation
    tpc,               \* where the call is
    query_embedding,   \* the vector the query was embedded to
    data,              \* result.data, the rows the match returned
    doc_i,             \* how many rows the for loop has taken
    block,             \* the loop's variable chunk_text
    formatted_chunks,  \* the list the blocks are collected in
    returned           \* what the call returned

chunkVars == <<text, chunk_size, start, chunks, lastEnd, cpc>>

crawlVars == <<max_concurrency, crawl, exc, loopClosed, sem, task, result, ctask,
               attempts, store, runs>>

toolVars == <<tpc, query_embedding, data, doc_i, block, formatted_chunks, returned>>

vars == <<chunkVars, crawlVars, toolVars>>

(***************************************************************************)
(* The crawled site and the external services.                             *)
(***************************************************************************)
Url(path) == [netloc |-> "ai.pydantic.dev", path |-> path]

\* the urls argument of crawl_parallel
Urls == {Url("/"), Url("/agents/"), Url("/api/")}

\* result.markdown.raw_markdown of a successful fetch of url
Markdown(url) ==
    CASE url.path = "/"        -> <<"a", ".", "\n", "\n", "a", "a">>
      [] url.path = "/agents/" -> <<"a", "a", "a">>
      [] OTHER                 -> <<"a", " ", "a">>

\* an external call returns ("ok") or raises ("error")
CallOutcomes == {"ok", "error"}

\* crawler.arun returns a result with success set ("ok"), returns one with
\* success unset and an error_message ("fail"), or raises ("raise")
FetchOutcomes == {"ok", "fail", "raise"}

\* the length of an embedding vector
EmbeddingDim == 1536

\* A vector is held as its length and the value that fills it: [0] * 1536
\* is Repeat(0, 1536); a vector the embedding service returns is non-zero.
Repeat(value, n) == [len |-> n, fill |-> value]

ServiceVector == Repeat(1, EmbeddingDim)

\* what the enrichment service replies to a well-formed request
ServiceReply == [title |-> "title from the service", summary |-> "summary from the service"]

(***************************************************************************)
(* get_title_and_summary, get_embedding, process_chunk.                    *)
(***************************************************************************)
\* the dict get_title_and_summary returns: the service's reply (to a
\* request holding the url and chunk[:1000], which the model does not
\* hold), or the dict of its except branch
get_title_and_summary(outcome) ==
    IF outcome = "ok" THEN ServiceReply
    ELSE [title |-> "Error processing title",
          processsing |-> "Error processsing summary"]

\* (mutant) the except branch returns a vector one short
get_embedding_short(outcome) ==
    IF outcome = "ok" THEN ServiceVector ELSE Repeat(0, EmbeddingDim - 1)

\* the list get_embedding returns: the service's vector, or [0] * 1536
get_embedding(outcome) ==
    IF outcome = "ok" THEN ServiceVector ELSE Repeat(0, EmbeddingDim)

\* urlparse(url).path
UrlPath(url) == url.path

\* the metadata dict of process_chunk (crawled_at, the wall clock, left out)
Metadata(chunk, url) ==
    [source |-> "PydanticAI_docs", size |-> Len(chunk), url_path |-> UrlPath(url)]

\* extracted['title'] and extracted['summary'] do not raise KeyError
HasKeys(extracted) == {"title", "summary"} \subseteq DOMAIN extracted

\* the ProcessedChunk process_chunk returns
ProcessedChunk(url, chunk_number, chunk, extracted, embedding) ==
    [url          |-> url,
     chunk_number |-> chunk_number,
     title        |-> extracted.title,
     summary      |-> extracted.summary,
     content      |-> chunk,
     metadata     |-> Metadata(chunk, url),
     embedding    |-> embedding]

\* chunks = chunk_text(markdown) in process_and_store_document
PageChunks(url) == chunk_text(Markdown(url), PageChunkSize)

\* the positions of the chunks of a page, from 1
ChunkIndices(url) == 1..Len(PageChunks(url))

\* (mutant) the chunks numbered from the end of the page
NewChunkTaskReversed(url, i) ==
    [st           |-> "summary",
     chunk_number |-> Len(PageChunks(url)) - i,
     chunk        |-> PageChunks(url)[i],
     enrich       |-> "none",
     embed        |-> "none",
     extracted    |-> <<>>,
     out          |-> <<>>]

\* (mutant) process_chunk starting at its embedding call, the enrichment
\* call not made and its reply taken for granted
NewChunkTaskEmbeddingFirst(url, i) ==
    [st           |-> "embedding",
     chunk_number |-> i - 1,
     chunk        |-> PageChunks(url)[i],
     enrich       |-> "none",
     embed        |-> "none",
     extracted    |-> <<ServiceReply>>,
     out          |-> <<>>]

\* a process_chunk task as asyncio.gather creates it: chunk_number is
\* enumerate's index, fixed at creation
NewChunkTask(url, i) ==
    [st           |-> "summary",
     chunk_number |-> i - 1,
     chunk        |-> PageChunks(url)[i],
     enrich       |-> "none",
     embed        |-> "none",
     extracted    |-> <<>>,
     out          |-> <<>>]

(***************************************************************************)
(* The semaphore.                                                          *)
(***************************************************************************)
\* (mutant) the slot given back twice, by the block and by hand
ReleaseTwice(s) == s + 2

\* (mutant) the slot is not given back
ReleaseLeak(s) == s

\* semaphore.release() on leaving "async with semaphore"
Release(s) == s + 1

\* a task that has not finished
LiveTask == {"waiting", "fetch", "enrich", "store"}

LiveChunkTask == {"summary", "embedding"}

(***************************************************************************)
(* Initial states.                                                         *)
(***************************************************************************)
ChunkIdle ==
    /\ text = <<>>
    /\ chunk_size = PageChunkSize
    /\ start = 0
    /\ chunks = <<>>
    /\ lastEnd = -1
    /\ cpc = "idle"

CrawlIdle ==
    /\ max_concurrency = 1
    /\ crawl = "idle"
    /\ exc = "none"
    /\ loopClosed = FALSE
    /\ sem = 1
    /\ task = [u \in Urls |-> "none"]
    /\ result = [u \in Urls |-> "none"]
    /\ ctask = [u \in Urls |-> <<>>]
    /\ attempts = [u \in Urls |-> <<>>]
    /\ store = EmptyBag
    /\ runs = 1

\* the tool has not been called
ToolIdle ==
    /\ tpc = "idle"
    /\ query_embedding = <<>>
    /\ data = <<>>
    /\ doc_i = 0
    /\ block = <<>>
    /\ formatted_chunks = <<>>
    /\ returned = <<>>

\* all strings over Alphabet of length n
RECURSIVE StringsOfLen(_)
StringsOfLen(n) ==
    IF n = 0 THEN {<<>>}
    ELSE {Append(s, c) : s \in StringsOfLen(n - 1), c \in Alphabet}

Texts == UNION {StringsOfLen(n) : n \in 0..MaxTextLen}

\* chunk_text(text, chunk_size) has been called
ChunkInit ==
    /\ text \in Texts
    /\ chunk_size \in 1..MaxChunkSize
    /\ start = 0
    /\ chunks = <<>>
    /\ lastEnd = -1
    /\ cpc = "loop"
    /\ CrawlIdle
    /\ ToolIdle

\* asyncio.run(main()) has called crawl_parallel(urls, max_concurrency):
\* it awaits crawler.start(); the semaphore is not yet created
Init ==
    /\ max_concurrency \in 1..MaxConcurrency
    /\ crawl = "start"
    /\ exc = "none"
    /\ loopClosed = FALSE
    /\ sem = max_concurrency
    /\ task = [u \in Urls |-> "none"]
    /\ result = [u \in Urls |-> "none"]
    /\ ctask = [u \in Urls |-> <<>>]
    /\ attempts = [u \in Urls |-> <<>>]
    /\ store = EmptyBag
    /\ runs = 1
    /\ ChunkIdle
    /\ ToolIdle

(***************************************************************************)
(* chunk_text's loop, one action per way through an iteration.             *)
(***************************************************************************)
\* the while test fails: return chunks
ChunkReturn ==
    /\ cpc = "loop"
    /\ ~(start < Len(text))
    /\ cpc' = "done"
    /\ UNCHANGED <<text, chunk_size, start, chunks, lastEnd>>
    /\ UNCHANGED <<crawlVars, toolVars>>

\* end >= len(text): append the rest, break, return chunks
ChunkTakeRest ==
    /\ cpc = "loop"
    /\ start < Len(text)
    /\ NaiveEnd(start, chunk_size) >= Len(text)
    /\ chunks' = Append(chunks, FinalChunk(text, start))
    /\ lastEnd' = NaiveEnd(start, chunk_size)
    /\ cpc' = "done"
    /\ UNCHANGED <<text, chunk_size, start>>
    /\ UNCHANGED <<crawlVars, toolVars>>

\* one full iteration: search the window, emit, advance the cursor
ChunkTakeWindow ==
    /\ cpc = "loop"
    /\ start < Len(text)
    /\ NaiveEnd(start, chunk_size) < Len(text)
    /\ LET end == WindowEnd(text, chunk_size, start)
       IN  /\ chunks' = Emit(chunks, Strip(Slice(text, start, end)))
           /\ start' = NextStart(start, end)
           /\ lastEnd' = end
    /\ UNCHANGED <<text, chunk_size, cpc>>
    /\ UNCHANGED <<crawlVars, toolVars>>

ChunkNext == ChunkReturn \/ ChunkTakeRest \/ ChunkTakeWindow

ChunkSpec == ChunkInit /\ [][ChunkNext]_vars

(***************************************************************************)
(* crawl_parallel: one action per step between two suspension points.      *)
(***************************************************************************)
\* await crawler.start() returns: the semaphore is created and
\* asyncio.gather makes one process_url task per url; or it raises, out of
\* crawl_parallel (the call is before the try)
CrawlerStart(outcome) ==
    /\ crawl = "start"
    /\ IF outcome = "ok"
         THEN /\ crawl' = "gather"
              /\ task' = [u \in Urls |-> "waiting"]
              /\ UNCHANGED exc
         ELSE /\ crawl' = "raised"
              /\ exc' = "crawler.start"
              /\ UNCHANGED task
    /\ UNCHANGED <<runs, max_concurrency, loopClosed, sem, result, ctask, attempts, store>>
    /\ UNCHANGED <<chunkVars, toolVars>>

\* process_url(u) enters "async with semaphore" and calls crawler.arun
Acquire(u) ==
    /\ task[u] = "waiting"
    /\ sem > 0
    /\ sem' = sem - 1
    /\ task' = [task EXCEPT ![u] = "fetch"]
    /\ UNCHANGED <<runs, max_concurrency, crawl, exc, loopClosed, result, ctask, attempts, store>>
    /\ UNCHANGED <<chunkVars, toolVars>>

\* process_url going on to the page whatever the fetch returned
SuccessAlways(outcome) == TRUE

\* result.success of what crawler.arun returned
Success(outcome) == outcome = "ok"

\* crawler.arun ends: the "async with" block is left and the slot given
\* back; then, on success, process_and_store_document splits the page and
\* gathers one process_chunk task per chunk
FetchReturn(u, outcome) ==
    /\ task[u] = "fetch"
    /\ sem' = Release(sem)
    /\ result' = [result EXCEPT ![u] = outcome]
    /\ CASE outcome = "raise" ->
              /\ task' = [task EXCEPT ![u] = "raised"]
              /\ UNCHANGED ctask
         [] outcome # "raise" /\ Success(outcome) ->
              /\ task' = [task EXCEPT ![u] = "enrich"]
              /\ ctask' = [ctask EXCEPT ![u] =
                              [i \in ChunkIndices(u) |-> NewChunkTask(u, i)]]
         [] OTHER ->
              /\ task' = [task EXCEPT ![u] = "failed"]
              /\ UNCHANGED ctask
    /\ UNCHANGED <<runs, max_concurrency, crawl, exc, loopClosed, attempts, store>>
    /\ UNCHANGED <<chunkVars, toolVars>>

\* process_chunk: "extracted = await get_title_and_summary(chunk, url)"
SummaryReturn(u, i, outcome) ==
    /\ i \in 1..Len(ctask[u])
    /\ ctask[u][i].st = "summary"
    /\ ctask' = [ctask EXCEPT ![u][i] =
                    [@ EXCEPT !.st = "embedding",
                              !.enrich = outcome,
                              !.extracted = <<get_title_and_summary(outcome)>>]]
    /\ UNCHANGED <<runs, max_concurrency, crawl, exc, loopClosed, sem, task, result, attempts, store>>
    /\ UNCHANGED <<chunkVars, toolVars>>

\* process_chunk: "embedding = await get_embedding(chunk)", then the
\* metadata and the ProcessedChunk, whose extracted['summary'] may raise
EmbeddingReturn(u, i, outcome) ==
    /\ i \in 1..Len(ctask[u])
    /\ ctask[u][i].st = "embedding"
    /\ LET t         == ctask[u][i]
           extracted == t.extracted[1]
           embedding == get_embedding(outcome)
       IN  ctask' = [ctask EXCEPT ![u][i] =
              IF HasKeys(extracted)
                THEN [t EXCEPT !.st = "done",
                               !.embed = outcome,
                               !.out = <<ProcessedChunk(u, t.chunk_number, t.chunk,
                                                        extracted, embedding)>>]
                ELSE [t EXCEPT !.st = "raised", !.embed = outcome]]
    /\ UNCHANGED <<runs, max_concurrency, crawl, exc, loopClosed, sem, task, result, attempts, store>>
    /\ UNCHANGED <<chunkVars, toolVars>>

\* (mutant) the wait for the chunk tasks ending at the first one done
FirstEnrichmentComplete(u) == \E i \in 1..Len(ctask[u]) : ctask[u][i].st = "done"

\* asyncio.gather(*tasks) has every result: every process_chunk task of
\* the page has returned its record
EnrichmentsComplete(u) == \A i \in 1..Len(ctask[u]) : ctask[u][i].st = "done"

\* "processed_chunk = await asyncio.gather(*tasks)" returns: every chunk
\* task is done; the insert_chunk tasks are gathered
EnrichGatherReturn(u) ==
    /\ task[u] = "enrich"
    /\ EnrichmentsComplete(u)
    /\ task' = [task EXCEPT ![u] = "store"]
    /\ UNCHANGED <<runs, max_concurrency, crawl, exc, loopClosed, sem, result, ctask, attempts, store>>
    /\ UNCHANGED <<chunkVars, toolVars>>

\* the gather raises the first exception of a chunk task, out of
\* process_and_store_document and process_url; the other chunk tasks run on
EnrichGatherRaise(u) ==
    /\ task[u] = "enrich"
    /\ \E i \in 1..Len(ctask[u]) : ctask[u][i].st = "raised"
    /\ task' = [task EXCEPT ![u] = "raised"]
    /\ UNCHANGED <<runs, max_concurrency, crawl, exc, loopClosed, sem, result, ctask, attempts, store>>
    /\ UNCHANGED <<chunkVars, toolVars>>

\* (mutant) insert_chunk without its try/except: a failed write raises
InsertResultRaising(outcome) == IF outcome = "ok" THEN "store" ELSE "raised"

\* where process_url is after an insert_chunk call: the except branch of
\* insert_chunk returns None, so the gather of the writes goes on
InsertResult(outcome) == "store"

\* the next insert_chunk task runs: supabase's insert of the row succeeds
\* or raises, and the try/except returns either way
InsertChunk(u, outcome) ==
    /\ task[u] = "store"
    /\ Len(attempts[u]) < Len(ctask[u])
    /\ LET chunk == ctask[u][Len(attempts[u]) + 1].out[1]
       IN  /\ attempts' = [attempts EXCEPT ![u] =
                  Append(@, [chunk_number |-> chunk.chunk_number, outcome |-> outcome])]
           /\ store' = IF outcome = "ok" THEN store (+) SetToBag({chunk}) ELSE store
    /\ task' = [task EXCEPT ![u] = InsertResult(outcome)]
    /\ UNCHANGED <<runs, max_concurrency, crawl, exc, loopClosed, sem, result, ctask>>
    /\ UNCHANGED <<chunkVars, toolVars>>

\* "await asyncio.gather(*insert_chunks)" returns; process_url returns
StoreGatherReturn(u) ==
    /\ task[u] = "store"
    /\ Len(attempts[u]) = Len(ctask[u])
    /\ task' = [task EXCEPT ![u] = "done"]
    /\ UNCHANGED <<runs, max_concurrency, crawl, exc, loopClosed, sem, result, ctask, attempts, store>>
    /\ UNCHANGED <<chunkVars, toolVars>>

\* the gather of the process_url tasks returns: each has returned
GatherReturn ==
    /\ crawl = "gather"
    /\ \A u \in Urls : task[u] \in {"done", "failed"}
    /\ crawl' = "close"
    /\ UNCHANGED <<runs, max_concurrency, exc, loopClosed, sem, task, result, ctask, attempts, store>>
    /\ UNCHANGED <<chunkVars, toolVars>>

\* the gather raises the first exception of a process_url task (no
\* return_exceptions); the other tasks are not cancelled and run on
GatherRaise ==
    /\ crawl = "gather"
    /\ \E u \in Urls : task[u] = "raised"
    /\ crawl' = "close"
    /\ exc' = "process_url"
    /\ UNCHANGED <<runs, max_concurrency, loopClosed, sem, task, result, ctask, attempts, store>>
    /\ UNCHANGED <<chunkVars, toolVars>>

\* finally: "await crawler.close()" ends; crawl_parallel returns, or raises
\* the exception in flight or the one of close
CrawlerClose(outcome) ==
    /\ crawl = "close"
    /\ exc' = IF outcome = "ok" THEN exc ELSE "crawler.close"
    /\ crawl' = IF exc' = "none" THEN "returned" ELSE "raised"
    /\ UNCHANGED <<runs, max_concurrency, loopClosed, sem, task, result, ctask, attempts, store>>
    /\ UNCHANGED <<chunkVars, toolVars>>

\* asyncio.run: main() is over; the tasks still alive are cancelled (a
\* task cancelled inside "async with semaphore" gives its slot back) and
\* the loop is closed
LoopShutdown ==
    /\ crawl \in {"returned", "raised"}
    /\ ~loopClosed
    /\ loopClosed' = TRUE
    /\ task' = [u \in Urls |-> IF task[u] \in LiveTask THEN "cancelled" ELSE task[u]]
    /\ ctask' = [u \in Urls |->
                    [i \in 1..Len(ctask[u]) |->
                        IF ctask[u][i].st \in LiveChunkTask
                          THEN [ctask[u][i] EXCEPT !.st = "cancelled"]
                          ELSE ctask[u][i]]]
    /\ sem' = sem + Cardinality({u \in Urls : task[u] = "fetch"})
    /\ UNCHANGED <<runs, max_concurrency, crawl, exc, result, attempts, store>>
    /\ UNCHANGED <<chunkVars, toolVars>>

Next ==
    \/ \E o \in CallOutcomes : CrawlerStart(o)
    \/ \E u \in Urls : Acquire(u)
    \/ \E u \in Urls, o \in FetchOutcomes : FetchReturn(u, o)
    \/ \E u \in Urls : \E i \in ChunkIndices(u), o \in CallOutcomes : SummaryReturn(u, i, o)
    \/ \E u \in Urls : \E i \in ChunkIndices(u), o \in CallOutcomes : EmbeddingReturn(u, i, o)
    \/ \E u \in Urls : EnrichGatherReturn(u)
    \/ \E u \in Urls : EnrichGatherRaise(u)
    \/ \E u \in Urls, o \in CallOutcomes : InsertChunk(u, o)
    \/ \E u \in Urls : StoreGatherReturn(u)
    \/ GatherReturn
    \/ GatherRaise
    \/ \E o \in CallOutcomes : CrawlerClose(o)
    \/ LoopShutdown

Spec == Init /\ [][Next]_vars

\* The crawl with the Fetcher down: crawler.arun never returns a page, it
\* returns a failure value or raises, so no page is ever processed.
FetcherDownOutcomes == {"fail", "raise"}

FetcherDownNext ==
    \/ \E o \in CallOutcomes : CrawlerStart(o)
    \/ \E u \in Urls : Acquire(u)
    \/ \E u \in Urls, o \in FetcherDownOutcomes : FetchReturn(u, o)
    \/ GatherReturn
    \/ GatherRaise
    \/ \E o \in CallOutcomes : CrawlerClose(o)
    \/ LoopShutdown

\* Fairness: the event loop runs whatever is ready, and every external
\* call ends (returns or raises), so a step that stays possible is taken.
FetcherDownSpec == Init /\ [][FetcherDownNext]_vars /\ WF_vars(FetcherDownNext)

(***************************************************************************)
(* The script started again on the same site against the same table.       *)
(***************************************************************************)
\* how many times the script is started
MaxRuns == 2

\* asyncio.run(main()) once more, in a new process: everything but the
\* table starts afresh
RunAgain ==
    /\ loopClosed
    /\ runs < MaxRuns
    /\ runs' = runs + 1
    /\ crawl' = "start"
    /\ exc' = "none"
    /\ loopClosed' = FALSE
    /\ sem' = max_concurrency
    /\ task' = [u \in Urls |-> "none"]
    /\ result' = [u \in Urls |-> "none"]
    /\ ctask' = [u \in Urls |-> <<>>]
    /\ attempts' = [u \in Urls |-> <<>>]
    /\ UNCHANGED <<max_concurrency, store>>
    /\ UNCHANGED <<chunkVars, toolVars>>

\* The site as the repeated runs find it: one page is served, with the
\* same text each time, and the fetch of every other page fails.
ServedPage == Url("/")

Served(u) == IF u = ServedPage THEN "ok" ELSE "fail"

ReingestNext ==
    \/ \E o \in CallOutcomes : CrawlerStart(o)
    \/ \E u \in Urls : Acquire(u)
    \/ \E u \in Urls : FetchReturn(u, Served(u))
    \/ \E u \in Urls : \E i \in ChunkIndices(u), o \in CallOutcomes : SummaryReturn(u, i, o)
    \/ \E u \in Urls : \E i \in ChunkIndices(u), o \in CallOutcomes : EmbeddingReturn(u, i, o)
    \/ \E u \in Urls : EnrichGatherReturn(u)
    \/ \E u \in Urls : EnrichGatherRaise(u)
    \/ \E u \in Urls, o \in CallOutcomes : InsertChunk(u, o)
    \/ \E u \in Urls : StoreGatherReturn(u)
    \/ GatherReturn
    \/ GatherRaise
    \/ \E o \in CallOutcomes : CrawlerClose(o)
    \/ LoopShutdown
    \/ RunAgain

ReingestSpec == Init /\ [][ReingestNext]_vars

(***************************************************************************)
(* The agent's tool retrieve_relevant_documentation (agent.py).            *)
(***************************************************************************)
\* how many rows the model lets the match return
MaxMatches == 3

\* the match_count handed to match_site_pages
match_count == 5

\* rows of site_pages as the match returns them (the fields the tool reads)
Docs ==
    { [title |-> "Agents", content |-> "about agents"],
      [title |-> "Models", content |-> "about models"],
      [title |-> "Tools",  content |-> "about tools"] }

RECURSIVE DocsOfLen(_)
DocsOfLen(n) ==
    IF n = 0 THEN {<<>>}
    ELSE {Append(s, d) : s \in DocsOfLen(n - 1), d \in Docs}

\* what result.data can be: at most match_count rows, most similar first
Matches == UNION {DocsOfLen(n) : n \in 0..Min(match_count, MaxMatches)}

\* agent.py's own get_embedding
agent_get_embedding(outcome) ==
    IF outcome = "ok" THEN ServiceVector ELSE Repeat(0, EmbeddingDim)

\* Python values the tool can return: a str, held as the sequence of its
\* pieces, or None
Str(pieces) == [type |-> "str", value |-> pieces]

None == [type |-> "NoneType"]

\* the f-string of the loop body, for one row
Block(doc) ==
    <<"\n                #", doc.title, "\n                ", doc.content,
      "\n                    ">>

Separator == <<"\n\n--\n\n">>

\* sep.join(blocks)
RECURSIVE Join(_, _)
Join(blocks, sep) ==
    IF blocks = <<>> THEN <<>>
    ELSE IF Len(blocks) = 1 THEN blocks[1]
    ELSE blocks[1] \o sep \o Join(Tail(blocks), sep)

\* the string of the except branch
RetrieveError == Str(<<"Error retrieving relevant documents: str{e}">>)

\* the tool has been called and awaits get_embedding
ToolInit ==
    /\ tpc = "embedding"
    /\ query_embedding = <<>>
    /\ data = <<>>
    /\ doc_i = 0
    /\ block = <<>>
    /\ formatted_chunks = <<>>
    /\ returned = <<>>
    /\ ChunkIdle
    /\ CrawlIdle

\* get_embedding is back (it never raises)
ToolEmbeddingReturn(outcome) ==
    /\ tpc = "embedding"
    /\ query_embedding' = <<agent_get_embedding(outcome)>>
    /\ tpc' = "rpc"
    /\ UNCHANGED <<data, doc_i, block, formatted_chunks, returned>>
    /\ UNCHANGED <<chunkVars, crawlVars>>

\* the rpc is back with the rows d: with none, the tool prints and runs
\* off the end of the function; with some, it enters the for loop
ToolRpcReturn(d) ==
    /\ tpc = "rpc"
    /\ data' = d
    /\ IF d = <<>>
         THEN /\ tpc' = "returned"
              /\ returned' = <<None>>
         ELSE /\ tpc' = "loop"
              /\ UNCHANGED returned
    /\ UNCHANGED <<query_embedding, doc_i, block, formatted_chunks>>
    /\ UNCHANGED <<chunkVars, crawlVars>>

\* the rpc raises: the except branch
ToolRpcRaise ==
    /\ tpc = "rpc"
    /\ tpc' = "returned"
    /\ returned' = <<RetrieveError>>
    /\ UNCHANGED <<query_embedding, data, doc_i, block, formatted_chunks>>
    /\ UNCHANGED <<chunkVars, crawlVars>>

\* one turn of the for loop: its body only assigns chunk_text
ToolLoopBody ==
    /\ tpc = "loop"
    /\ doc_i < Len(data)
    /\ doc_i' = doc_i + 1
    /\ block' = Block(data[doc_i + 1])
    /\ UNCHANGED <<tpc, query_embedding, data, formatted_chunks, returned>>
    /\ UNCHANGED <<chunkVars, crawlVars>>

\* after the loop: the append, which stands at the indentation of the
\* for statement, and the return of the joined list
ToolLoopExit ==
    /\ tpc = "loop"
    /\ doc_i = Len(data)
    /\ formatted_chunks' = Append(formatted_chunks, block)
    /\ returned' = <<Str(Join(formatted_chunks', Separator))>>
    /\ tpc' = "returned"
    /\ UNCHANGED <<query_embedding, data, doc_i, block>>
    /\ UNCHANGED <<chunkVars, crawlVars>>

ToolNext ==
    \/ \E o \in CallOutcomes : ToolEmbeddingReturn(o)
    \/ \E d \in Matches : ToolRpcReturn(d)
    \/ ToolRpcRaise
    \/ ToolLoopBody
    \/ ToolLoopExit

ToolSpec == ToolInit /\ [][ToolNext]_vars

(***************************************************************************)
(* chunk_text: the claims about the splitter, checked under ChunkSpec.     *)
(***************************************************************************)
\* all of s that is not whitespace, in order
RECURSIVE RemoveWhitespace(_)
RemoveWhitespace(s) ==
    IF s = <<>> THEN <<>>
    ELSE IF Head(s) \in Whitespace THEN RemoveWhitespace(Tail(s))
    ELSE <<Head(s)>> \o RemoveWhitespace(Tail(s))

\* the chunks of a list joined in emission order
RECURSIVE Concat(_)
Concat(list) ==
    IF list = <<>> THEN <<>> ELSE Head(list) \o Concat(Tail(list))

IsTrimmed(s) == s = <<>> \/ (s[1] \notin Whitespace /\ s[Len(s)] \notin Whitespace)

\* C8 (as claimed): no element of chunk_text(T, targetSize) is the empty
\* string and every element is trimmed of leading and trailing whitespace,
\* also the final remainder of the text.
C8_NoEmptyChunk ==
    \A i \in 1..Len(chunks) : chunks[i] # <<>> /\ IsTrimmed(chunks[i])

\* C9: the chunks, concatenated in emission order with all whitespace
\* removed, equal the text with all whitespace removed: while the loop runs
\* they cover the text before the cursor, and on return the whole text.
C9_ContentPreserved ==
    /\ cpc = "loop" =>
          RemoveWhitespace(Concat(chunks)) = RemoveWhitespace(Slice(text, 0, start))
    /\ cpc = "done" =>
          RemoveWhitespace(Concat(chunks)) = RemoveWhitespace(text)

\* C9 witness: a returned split of three chunks or more, cut at a break
\* point that is not the naive window end, of a text that holds whitespace.
C9_Witness ==
    /\ cpc = "done"
    /\ Len(chunks) >= 3
    /\ \E i \in 1..Len(text) : text[i] \in Whitespace
    /\ Len(chunks[1]) < chunk_size
    /\ RemoveWhitespace(Concat(chunks)) = RemoveWhitespace(text)

\* C10: every chunk returned by chunk_text(T, targetSize) has at most
\* targetSize characters, the final chunk (the rest of the text) included.
C10_ChunkLengthBounded ==
    \A i \in 1..Len(chunks) : Len(chunks[i]) <= chunk_size

\* C10 witness: a returned split of two chunks or more whose final chunk,
\* the rest of the text, is exactly chunk_size long.
C10_Witness ==
    /\ cpc = "done"
    /\ Len(chunks) >= 2
    /\ lastEnd >= Len(text)
    /\ Len(chunks[Len(chunks)]) = chunk_size
    /\ chunk_size >= 2


(***************************************************************************)
(* crawl_parallel: the claims about the crawl, checked under Spec (and     *)
(* FairSpec for termination).                                              *)
(***************************************************************************)
\* the urls in their fetch phase or their process phase
InFlight == {u \in Urls : task[u] \in {"fetch", "enrich", "store"}}

\* crawl_parallel has returned or raised
Terminated == crawl \in {"returned", "raised"}

\* the rows of the store with a url and a chunk number
RowsOf(u, n) == {r \in BagToSet(store) : r.url = u /\ r.chunk_number = n}

\* no crawler.arun call has raised
NoFetchRaised == \A u \in Urls : result[u] # "raise"

\* no external call made for u has failed
OwnCallsSucceeded(u) ==
    /\ result[u] \notin {"fail", "raise"}
    /\ \A i \in 1..Len(ctask[u]) :
          ctask[u][i].enrich # "error" /\ ctask[u][i].embed # "error"
    /\ \A i \in 1..Len(attempts[u]) : attempts[u][i].outcome # "error"

\* every chunk of u's page has its row in the store
AllStored(u) ==
    \A i \in ChunkIndices(u) :
        \E r \in RowsOf(u, i - 1) : r.content = PageChunks(u)[i]

\* C1 (as claimed): at most max_concurrency urls are in their fetch phase or
\* their process phase (split, enrichment, embedding, store writes) at once.
C1_InFlightAtMostK == Cardinality(InFlight) <= max_concurrency

\* C2 (as claimed): when the run is over, every url none of whose own calls
\* failed has every chunk record in the store, and the batch was not
\* aborted by an exception of a process_url task, whatever failed for the
\* other urls.  (Runs in which the crawler's own start or close raised, or
\* in which a fetch raised instead of returning a failure value, are left
\* aside: the Fetcher's contract is failure as a value.)
C2_FailureIsolation ==
    (loopClosed /\ exc \notin {"crawler.start", "crawler.close"} /\ NoFetchRaised) =>
        /\ exc = "none"
        /\ \A u \in Urls : OwnCallsSucceeded(u) => AllStored(u)

\* every field of a ProcessedChunk holds a value
Populated(rec) ==
    /\ rec.url \in Urls
    /\ rec.chunk_number \in Nat
    /\ rec.title # ""
    /\ rec.summary # ""
    /\ rec.content # <<>>
    /\ DOMAIN rec.metadata = {"source", "size", "url_path"}
    /\ rec.embedding.len = EmbeddingDim

\* C3 (as claimed): for every outcome of the enrichment and the embedding
\* call, process_chunk does not raise and returns a record with every field
\* populated; when the enrichment call failed, title and summary are the
\* sentinel strings.
C3_EnrichNeverRaises ==
    \A u \in Urls : \A i \in 1..Len(ctask[u]) :
        LET t == ctask[u][i]
        IN  /\ t.st # "raised"
            /\ t.st = "done" =>
                  /\ Populated(t.out[1])
                  /\ t.enrich = "error" =>
                        /\ t.out[1].title = "Error processing title"
                        /\ t.out[1].summary = "Error processing summary"

\* C4 (as claimed): once crawl_parallel has returned or raised (after a
\* crawler that started), no url is unattempted, fetching or processing,
\* whichever calls failed.  (Runs in which a fetch raised instead of
\* returning a failure value are left aside.)
C4_TerminatesAfterAllUrls ==
    (Terminated /\ exc # "crawler.start" /\ NoFetchRaised) =>
        \A u \in Urls : task[u] \notin (LiveTask \cup {"none"})

\* every fetch so far returned a failure value
AllFetchesFail == \A u \in Urls : result[u] \in {"none", "fail"}

\* the crawler itself started and closed without raising
CrawlerSound == exc \notin {"crawler.start", "crawler.close"}

\* C5: in every fair run in which every Fetcher call returns a failure
\* value (and the crawler itself starts and closes), crawl_parallel
\* terminates by returning, every url got its slot and its fetch (none is
\* left waiting), and the store stays empty.
C5_TerminatesWhenAllFetchesFail ==
    ([]AllFetchesFail /\ []CrawlerSound) =>
        <>[](/\ crawl = "returned"
             /\ \A u \in Urls : task[u] = "failed"
             /\ store = EmptyBag)

\* C5 witness: with fewer slots than urls, every fetch has failed and
\* crawl_parallel has returned with an empty store.
C5_Witness ==
    /\ max_concurrency < Cardinality(Urls)
    /\ \A u \in Urls : result[u] = "fail" /\ task[u] = "failed"
    /\ crawl = "returned"
    /\ store = EmptyBag

\* C6: the writes of a page are attempted one per chunk, in index order,
\* none twice; a page whose processing completed had exactly one write
\* attempted for each of its n chunks, whatever the outcome of each; a
\* write that succeeded is in the store and one that failed is not; and
\* process_and_store_document never raises once its writes have begun.
C6_EveryWriteAttempted ==
    \A u \in Urls :
        /\ Len(attempts[u]) <= Len(ctask[u])
        /\ \A i \in 1..Len(attempts[u]) : attempts[u][i].chunk_number = i - 1
        /\ task[u] = "done" => Len(attempts[u]) = Len(PageChunks(u))
        /\ task[u] = "raised" => attempts[u] = <<>>
        /\ \A i \in 1..Len(attempts[u]) :
              (attempts[u][i].outcome = "ok") <=> (RowsOf(u, i - 1) = {ctask[u][i].out[1]})

\* C6 witness: a page of two chunks is done, its first write failed and its
\* second write succeeded and is in the store.
C6_Witness ==
    \E u \in Urls :
        /\ task[u] = "done"
        /\ Len(attempts[u]) = 2
        /\ attempts[u][1].outcome = "error"
        /\ attempts[u][2].outcome = "ok"
        /\ RowsOf(u, 0) = {}
        /\ RowsOf(u, 1) # {}

\* C7: a chunk whose embedding call failed and whose enrichment call
\* succeeded yields a record (process_chunk does not raise) with the
\* all-zero vector of dimension 1536 and the title and summary of the
\* service, and the row stored for that chunk is that record.
C7_ZeroVectorOnEmbeddingFailure ==
    \A u \in Urls : \A i \in 1..Len(ctask[u]) :
        LET t == ctask[u][i]
        IN  (t.embed = "error" /\ t.enrich = "ok") =>
                /\ t.st = "done"
                /\ t.out[1].embedding = Repeat(0, EmbeddingDim)
                /\ t.out[1].title = ServiceReply.title
                /\ t.out[1].summary = ServiceReply.summary
                /\ \A r \in RowsOf(u, t.chunk_number) : r = t.out[1]

\* C7 witness: such a record is in the store.
C7_Witness ==
    \E u \in Urls : \E i \in 1..Len(ctask[u]) :
        /\ ctask[u][i].embed = "error"
        /\ ctask[u][i].enrich = "ok"
        /\ \E r \in RowsOf(u, ctask[u][i].chunk_number) :
              r.embedding = Repeat(0, EmbeddingDim) /\ r.title = ServiceReply.title


\* the window end in strict priority order: the last fence if past the
\* threshold, else the last blank line if past it, else the last period
\* if past it, else the naive cut
PriorityEnd(t, size, from) ==
    LET end    == from + size
        window == Slice(t, from, end)
        fence  == RFind(window, Fence)
        para   == RFind(window, ParaBreak)
        period == RFind(window, Period)
    IN  IF fence # -1 /\ PastThreshold(fence, size) THEN from + fence
        ELSE IF para # -1 /\ PastThreshold(para, size) THEN from + para
        ELSE IF period # -1 /\ PastThreshold(period, size) THEN from + period
        ELSE end

\* C14 (as claimed): in every iteration over a non-final window the window
\* end is the one the strict priority order gives; in particular a period
\* past the threshold is taken when the window's last blank line is at or
\* below it.
C14_BreakPointPriority ==
    [][(cpc = "loop" /\ start' # start) =>
          lastEnd' = PriorityEnd(text, chunk_size, start)]_vars

\* C15: every loop iteration either leaves the loop or moves the cursor
\* strictly forward and keeps it inside the text: the cursor is a strictly
\* increasing integer below len(text), so chunk_text runs at most
\* len(text) iterations before it returns.
C15_CursorAdvancesAndLoopEnds ==
    [][cpc = "loop" => (cpc' = "done" \/ (start < start' /\ start' < Len(text)))]_vars

\* C15 witness: chunk_text has returned after its cursor moved three times
\* or more, by one character each time (four chunks of one character).
C15_Witness ==
    /\ cpc = "done"
    /\ chunk_size = 1
    /\ Len(chunks) >= 4
    /\ start >= 3

(***************************************************************************)
(* Repeated runs, checked under ReingestSpec.                              *)
(***************************************************************************)
\* how many rows of the bag b are among the rows rs
RECURSIVE CopiesAmong(_, _)
CopiesAmong(rs, b) ==
    IF rs = {} THEN 0
    ELSE LET r == CHOOSE x \in rs : TRUE
         IN  CopiesIn(r, b) + CopiesAmong(rs \ {r}, b)

\* the rows of the table with the key (u, n)
RowCount(u, n) ==
    CopiesAmong({r \in BagToSet(store) : r.url = u /\ r.chunk_number = n}, store)

\* C11: however often a URL is processed with the same page text, also
\* after a run that failed part-way, the table holds at most one row per
\* key (url, chunk_number), and after a run that stored the whole page
\* exactly one row for each of its chunks.
C11_OneRowPerKey ==
    /\ \A u \in Urls : \A n \in 0..MaxTextLen : RowCount(u, n) <= 1
    /\ \A u \in Urls :
          (task[u] = "done" /\ \A k \in 1..Len(attempts[u]) : attempts[u][k].outcome = "ok")
            => \A i \in ChunkIndices(u) : RowCount(u, i - 1) = 1


(***************************************************************************)
(* retrieve_relevant_documentation, checked under ToolSpec.                *)
(***************************************************************************)
\* C12: the tool returns a string on every path, and for a match of n >= 1
\* rows the string is the n formatted title/content blocks, in the order
\* of the rows, joined by the separator.
C12_ReturnsEveryMatch ==
    tpc = "returned" =>
        /\ returned[1].type = "str"
        /\ data # <<>> =>
              returned[1].value = Join([i \in 1..Len(data) |-> Block(data[i])], Separator)


(***************************************************************************)
(* The crawl: further claims checked under Spec.                           *)
(***************************************************************************)
\* the rows of the table with a url
RowsOfUrl(u) == {r \in BagToSet(store) : r.url = u}

\* no enrichment call has failed
NoEnrichmentFailed ==
    \A u \in Urls : \A i \in 1..Len(ctask[u]) : ctask[u][i].enrich # "error"

\* C13: a url whose fetch returned a failure value is never processed (no
\* chunk task, no write attempt, no row), its process_url task is over and
\* holds no slot (the slots held are those of the fetches in flight), and
\* the run still completes: when nothing else made the batch fail,
\* crawl_parallel returns and the pages whose calls all succeeded are
\* stored whole.
C13_FailedFetchNotProcessed ==
    /\ \A u \in Urls :
          result[u] = "fail" =>
              /\ task[u] = "failed"
              /\ ctask[u] = <<>>
              /\ attempts[u] = <<>>
              /\ RowsOfUrl(u) = {}
    /\ max_concurrency - sem = Cardinality({u \in Urls : task[u] = "fetch"})
    /\ (loopClosed /\ CrawlerSound /\ NoFetchRaised /\ NoEnrichmentFailed) =>
          /\ crawl = "returned"
          /\ \A u \in Urls : (result[u] = "ok" /\ OwnCallsSucceeded(u)) => AllStored(u)

\* C13 witness: with two slots, the fetch of /agents/ failed, the run is
\* over, and exactly the two other pages are stored.
C13_Witness ==
    /\ max_concurrency = 2
    /\ loopClosed
    /\ crawl = "returned"
    /\ result[Url("/agents/")] = "fail"
    /\ RowsOfUrl(Url("/agents/")) = {}
    /\ \A u \in Urls \ {Url("/agents/")} : result[u] = "ok" /\ AllStored(u)


\* C16: whatever the order in which the chunk tasks of a page complete,
\* the record of the i-th chunk task carries the index i - 1 and the i-th
\* chunk of the split as content; the records are handed to the store in
\* index order, each once, all of 0..n-1 when the page is done; and every
\* row in the table holds the chunk of its page that its index names.
C16_IndexFixedBeforeFanOut ==
    \A u \in Urls :
        /\ Len(ctask[u]) \in {0, Len(chunk_text(Markdown(u), PageChunkSize))}
        /\ \A i \in 1..Len(ctask[u]) :
              ctask[u][i].out # <<>> =>
                  /\ ctask[u][i].out[1].url = u
                  /\ ctask[u][i].out[1].chunk_number = i - 1
                  /\ ctask[u][i].out[1].content = chunk_text(Markdown(u), PageChunkSize)[i]
        /\ \A k \in 1..Len(attempts[u]) : attempts[u][k].chunk_number = k - 1
        /\ task[u] = "done" =>
              {attempts[u][k].chunk_number : k \in 1..Len(attempts[u])}
                  = 0..(Len(chunk_text(Markdown(u), PageChunkSize)) - 1)
        /\ \A r \in RowsOfUrl(u) :
              /\ r.chunk_number \in 0..(Len(chunk_text(Markdown(u), PageChunkSize)) - 1)
              /\ r.content = chunk_text(Markdown(u), PageChunkSize)[r.chunk_number + 1]
              /\ RowCount(u, r.chunk_number) = 1

\* C16 witness: on a page of two chunks the second chunk's task completed
\* while the first is still awaiting a service, and its record carries
\* index 1 and the second chunk.
C16_Witness ==
    \E u \in Urls :
        /\ Len(ctask[u]) = 2
        /\ ctask[u][1].st \in LiveChunkTask
        /\ ctask[u][2].st = "done"
        /\ ctask[u][2].out[1].chunk_number = 1
        /\ ctask[u][2].out[1].content = chunk_text(Markdown(u), PageChunkSize)[2]
        /\ ctask[u][2].out[1].content # chunk_text(Markdown(u), PageChunkSize)[1]


\* C17: the two phases of process_and_store_document are separated by a
\* barrier: a page is in its write phase, has a write attempted or has a
\* row in the table only when every one of its chunk tasks has returned
\* its record; a page whose enrichments have all completed can always go
\* on to its next write; and when the page is done every record has been
\* written (handed to insert_chunk).
C17_BarrierBetweenPhases ==
    \A u \in Urls :
        /\ (task[u] \in {"store", "done"} \/ attempts[u] # <<>> \/ RowsOfUrl(u) # {}) =>
              /\ ctask[u] # <<>>
              /\ \A i \in 1..Len(ctask[u]) : ctask[u][i].st = "done"
        /\ (task[u] = "enrich" /\ \A i \in 1..Len(ctask[u]) : ctask[u][i].st = "done") =>
              ENABLED EnrichGatherReturn(u)
        /\ (task[u] = "store" /\ Len(attempts[u]) < Len(ctask[u])) =>
              ENABLED InsertChunk(u, "ok")
        /\ task[u] = "done" =>
              /\ Len(attempts[u]) = Len(ctask[u])
              /\ \A i \in 1..Len(ctask[u]) :
                    attempts[u][i].chunk_number = ctask[u][i].out[1].chunk_number

\* C17 witness: a page of two chunks is in its write phase with one write
\* made and one to go, both enrichments complete.
C17_Witness ==
    \E u \in Urls :
        /\ task[u] = "store"
        /\ Len(ctask[u]) = 2
        /\ Len(attempts[u]) = 1
        /\ \A i \in 1..2 : ctask[u][i].st = "done"


\* the enrichment call of a chunk task is in flight
EnrichmentInFlight(t) == t.st = "summary"

\* the embedding call of a chunk task is in flight
EmbeddingInFlight(t) == t.st = "embedding"

Fetching == {u \in Urls : task[u] = "fetch"}

\* C19: at most max_concurrency crawler.arun calls are in flight; the
\* slots held are between 0 and max_concurrency and are exactly those of
\* the calls in flight, so a slot is given back on every exit from the
\* fetch (a result, a failure value, an exception, a cancellation); and
\* when no task is left that can fetch, all max_concurrency slots are free.
C19_SlotAccounting ==
    /\ Cardinality(Fetching) <= max_concurrency
    /\ sem \in 0..max_concurrency
    /\ max_concurrency - sem = Cardinality(Fetching)
    /\ \A u \in Urls : result[u] # "none" => u \notin Fetching
    /\ (loopClosed \/ \A u \in Urls : task[u] \notin {"none", "waiting", "fetch"}) =>
          sem = max_concurrency

\* C19 witness: with one slot, a url's fetch has raised and another url
\* holds the slot: the raise gave it back.
C19_Witness ==
    /\ max_concurrency = 1
    /\ \E u, v \in Urls :
          /\ result[u] = "raise"
          /\ task[u] = "raised"
          /\ task[v] = "fetch"
          /\ sem = 0


\* "await crawler.close()" has begun, or is over
CloseBegun == crawl = "close" \/ (Terminated /\ exc # "crawler.start")

\* C20 (as claimed): no process_url task exists before the crawler has
\* started; crawl_parallel ends only through crawler.close(), on a normal
\* return and on an exception out of the gather alike; and once the close
\* has begun no url waits for a slot, is being fetched or is being
\* processed.
C20_FetcherLifecycle ==
    /\ crawl = "start" => \A u \in Urls : task[u] = "none"
    /\ (Terminated /\ exc = "process_url") => CloseBegun
    /\ CloseBegun => \A u \in Urls : task[u] \notin LiveTask

====
